---- MODULE Spec2Model ----
(***************************************************************************)
(* Model of rod's development helpers (src/sugar.go, second half): the     *)
(* monitor server started by Browser.ServeMonitor, the overlay injector    *)
(* (Page.Overlay, Element.Trace) and the call tracer (Page.tryTraceFn,     *)
(* Element.tryTrace).                                                      *)
(***************************************************************************)
EXTENDS Integers, Sequences, FiniteSets, TLC

\* ------------------------------------------------------------------ bounds
MaxServeCalls == 1
MaxRequests == 2
MaxCalls == 1
MaxRemoves == 2

VARIABLES
  ctxDone,    \* b.ctx.Done() has fired
  monitors,   \* one record per ServeMonitor call, in call order
  inflight,   \* accepted connections whose request is not yet answered
  responses,  \* answered requests, in the order they were answered
  nreq,       \* number of connections accepted so far
  trace,      \* browser.trace
  quiet,      \* browser.quiet
  calls,      \* the tracer and overlay calls made so far, with what each returned
  effects,    \* log lines, remote evaluations, error-sink calls and serializations, in order
  dom,        \* the overlay elements the page holds
  mouse,      \* Mouse.x, Mouse.y
  cursor,     \* where the page's cursor marker is; <<>> when the page has none
  mlog,       \* the mouse tracer calls made so far, with what each returned
  slowmotion, \* browser.slowmotion
  clock,      \* the time the calling path has spent suspended
  paces,      \* per trySlowmotion call, the durations it slept
  sugar       \* the calls of the panic-wrapping methods, with how each ended

monitorVars == <<ctxDone, monitors, inflight, responses, nreq>>
traceVars == <<trace, quiet, calls, effects, dom>>
mouseVars == <<mouse, cursor, mlog>>
paceVars == <<slowmotion, clock, paces>>
otherVars == <<mouseVars, paceVars, sugar>>
vars == <<ctxDone, monitors, inflight, responses, nreq, trace, quiet, calls, effects, dom,
          mouse, cursor, mlog, slowmotion, clock, paces, sugar>>

\* ------------------------------------------------------- monitor server
Hosts == {"", ":0", ":8080"}

Routes == {"/", "/pages", "/page/:id", "/api/page/:id", "/screenshot/:id"}

\* net.Listen resolves port 0 to a port of its own choosing, one per listener
ActualAddr(host, call) ==
  IF host = ":0" THEN ":e" \o ToString(call) ELSE host

\* the fail-fast collaborators each route's handler calls
Calls(route) ==
  CASE route = "/pages" -> {"TargetGetTargets"}
    [] route = "/api/page/:id" -> {"pageInfo"}
    [] route = "/screenshot/:id" -> {"PageFromTargetID", "Screenshot"}
    [] OTHER -> {}

\* a fresh gin context: nothing written, no panic in flight
NewCtx ==
  [status |-> 0, ctype |-> "", body |-> "", panic |-> "", err |-> "", escaped |-> FALSE]

\* utils.E(err) with a non-nil error: the handler's goroutine panics with it
Panic(ctx, what) == [ctx EXCEPT !.panic = what \o " failed"]

ginHTML(ctx, asset) ==
  [ctx EXCEPT !.status = 200, !.ctype = "text/html; charset=utf-8", !.body = asset]

PureJSON(ctx, code, value) ==
  [ctx EXCEPT !.status = code, !.ctype = "application/json; charset=utf-8", !.body = value]

\* the route's handler; failing is the collaborator that fails during this request
RouteHandler(route, failing, ctx) ==
  CASE route = "/" -> ginHTML(ctx, "assets.Monitor")
    [] route = "/pages" ->
         IF failing = "TargetGetTargets" THEN Panic(ctx, failing)
         ELSE PureJSON(ctx, 200, "TargetInfos")
    [] route = "/page/:id" -> ginHTML(ctx, "assets.MonitorPage")
    [] route = "/api/page/:id" ->
         IF failing = "pageInfo" THEN Panic(ctx, failing)
         ELSE PureJSON(ctx, 200, "TargetInfo")
    [] route = "/screenshot/:id" ->
         IF failing = "PageFromTargetID" THEN Panic(ctx, failing)
         ELSE IF failing = "Screenshot"
              \* the argument of Write is evaluated before Write is called:
              \* the header is set, nothing is written
              THEN Panic([ctx EXCEPT !.ctype = "image/png;"], failing)
              ELSE [ctx EXCEPT !.status = 200, !.ctype = "image/png;", !.body = "png"]

\* a middleware that lets the panic through: the connection is dropped by
\* net/http without a response
NoRecoverMiddleware(route, failing, ctx) ==
  LET c == RouteHandler(route, failing, ctx)
  IN  IF c.panic # "" THEN [c EXCEPT !.status = 0, !.escaped = TRUE] ELSE c

\* srv.Engine.Use(...): ctx.Next() under a deferred recover()
RecoverMiddleware(route, failing, ctx) ==
  LET c == RouteHandler(route, failing, ctx)
  IN  IF c.panic # ""
      THEN [c EXCEPT !.status = 400, !.err = c.panic, !.body = "", !.panic = ""]
      ELSE c

\* the session ServeMonitor returns for an empty host: nil
DisabledSession(host, openBrowser) ==
  [host |-> host, openBrowser |-> openBrowser, result |-> "nil", listener |-> "none",
   addr |-> "", routes |-> {}, accept |-> "none", watcher |-> "none", viewer |-> ""]

\* kit.MustServer panics when the address cannot be bound; ServeMonitor panics with it
BindFailed(host, openBrowser) ==
  [host |-> host, openBrowser |-> openBrowser, result |-> "panic", listener |-> "none",
   addr |-> "", routes |-> {}, accept |-> "none", watcher |-> "none", viewer |-> ""]

\* the address is held by a listener of this process
AddrInUse(addr) ==
  \E i \in 1..Len(monitors) : monitors[i].listener = "open" /\ monitors[i].addr = addr

\* the body of ServeMonitor for a host that MustServer is given
StartServer(host, openBrowser, portFree) ==
  LET addr == ActualAddr(host, Len(monitors) + 1)
  IN  IF AddrInUse(addr) \/ ~portFree
      THEN BindFailed(host, openBrowser)
      ELSE [host |-> host, openBrowser |-> openBrowser, result |-> "srv",
            listener |-> "open", addr |-> addr, routes |-> Routes,
            accept |-> "running", watcher |-> "waiting",
            viewer |-> IF openBrowser THEN "http://" \o addr ELSE ""]

\* ServeMonitor without the empty-host check
ServeMonitorNoHostCheck(host, openBrowser, portFree) ==
  StartServer(host, openBrowser, portFree)

\* portFree: no other process holds the address (a port of the system's choosing
\* is always free)
ServeMonitorResult(host, openBrowser, portFree) ==
  IF host = ""
  THEN DisabledSession(host, openBrowser)
  ELSE StartServer(host, openBrowser, portFree)

ServeMonitor(host, openBrowser, portFree) ==
  /\ Len(monitors) < MaxServeCalls
  /\ host = ":0" => portFree
  /\ monitors' = Append(monitors, ServeMonitorResult(host, openBrowser, portFree))
  /\ UNCHANGED <<ctxDone, inflight, responses, nreq, traceVars, otherVars>>

\* the owning session is cancelled
Cancel ==
  /\ ~ctxDone
  /\ ctxDone' = TRUE
  /\ UNCHANGED <<monitors, inflight, responses, nreq, traceVars, otherVars>>

\* a watcher that does not wait for the cancellation
WatcherReadyAlways(i) == monitors[i].watcher = "waiting"

\* a watcher that returns without closing the listener
WatcherNoClose(i) ==
  /\ monitors[i].watcher = "waiting" /\ ctxDone
  /\ monitors' = [monitors EXCEPT ![i].watcher = "done"]
  /\ UNCHANGED <<ctxDone, inflight, responses, nreq, traceVars, otherVars>>

\* go func() { <-b.ctx.Done(); ... }: the receive is enabled once ctx is done
WatcherReady(i) == monitors[i].watcher = "waiting" /\ ctxDone

Watcher(i) ==
  /\ WatcherReady(i)
  /\ monitors' = [monitors EXCEPT ![i].listener = "closed", ![i].watcher = "done"]
  /\ UNCHANGED <<ctxDone, inflight, responses, nreq, traceVars, otherVars>>

\* go func() { _ = srv.Do() }(): Accept fails once the listener is closed, Do
\* returns and its error is dropped
AcceptLoopReturn(i) ==
  /\ monitors[i].accept = "running"
  /\ monitors[i].listener = "closed"
  /\ monitors' = [monitors EXCEPT ![i].accept = "returned"]
  /\ UNCHANGED <<ctxDone, inflight, responses, nreq, traceVars, otherVars>>

\* the accept loop takes a connection and its request
Accept(i, route) ==
  /\ monitors[i].accept = "running"
  /\ monitors[i].listener = "open"
  /\ route \in monitors[i].routes
  /\ nreq < MaxRequests
  /\ nreq' = nreq + 1
  /\ inflight' = inflight \cup {[mon |-> i, route |-> route]}
  /\ UNCHANGED <<ctxDone, monitors, responses, traceVars, otherVars>>

\* the connection's goroutine runs the gin chain and answers
HandleRequest(r, failing) ==
  /\ r \in inflight
  /\ LET c == RecoverMiddleware(r.route, failing, NewCtx)
     IN  responses' = Append(responses,
           [route |-> r.route, failing |-> failing,
            status |-> c.status, ctype |-> c.ctype, body |-> c.body,
            err |-> c.err, escaped |-> c.escaped])
  /\ inflight' = inflight \ {r}
  /\ UNCHANGED <<ctxDone, monitors, nreq, traceVars, otherVars>>

MonitorIdle ==
  /\ ctxDone = FALSE
  /\ monitors = <<>>
  /\ inflight = {}
  /\ responses = <<>>
  /\ nreq = 0

TraceIdle ==
  /\ calls = <<>>
  /\ effects = <<>>
  /\ dom = {}

\* no mouse tracer, pacer or wrapper call was made
OtherIdle ==
  /\ mouse = <<0, 0>>
  /\ cursor = <<>>
  /\ mlog = <<>>
  /\ slowmotion = 0
  /\ clock = 0
  /\ paces = <<>>
  /\ sugar = <<>>

InitMonitor ==
  /\ MonitorIdle
  /\ TraceIdle
  /\ OtherIdle
  /\ trace = FALSE
  /\ quiet = FALSE

NextMonitor ==
  \/ Cancel
  \/ \E host \in Hosts, openBrowser \in BOOLEAN, portFree \in BOOLEAN :
        ServeMonitor(host, openBrowser, portFree)
  \/ \E i \in 1..Len(monitors) : Watcher(i)
  \/ \E i \in 1..Len(monitors) : AcceptLoopReturn(i)
  \/ \E i \in 1..Len(monitors), route \in Routes : Accept(i, route)
  \/ \E r \in inflight : \E failing \in Calls(r.route) \cup {"none"} : HandleRequest(r, failing)

SpecMonitor == InitMonitor /\ [][NextMonitor]_vars

\* the Go scheduler runs every runnable goroutine: a watcher whose receive is
\* ready is eventually run
SpecMonitorFair ==
  /\ SpecMonitor
  /\ \A i \in 1..MaxServeCalls : WF_vars(i <= Len(monitors) /\ Watcher(i))

\* ---------------------------------------------------------------- strings
\* A Go string is a sequence of one-character strings.

Digits == <<"0", "1", "2", "3", "4", "5", "6", "7", "8", "9">>

\* the decimal digits of a natural number
RECURSIVE Itoa(_)
Itoa(n) ==
  IF n < 10 THEN <<Digits[n + 1]>> ELSE Itoa(n \div 10) \o <<Digits[(n % 10) + 1]>>

\* s holds p at position k
HasPrefixAt(s, p, k) ==
  k + Len(p) - 1 <= Len(s) /\ SubSeq(s, k, k + Len(p) - 1) = p

SetMin(S) == CHOOSE x \in S : \A y \in S : x <= y
SetMax(S) == CHOOSE x \in S : \A y \in S : x >= y

\* strips one leading "[" and one trailing "]" after the surrounding line breaks
StripOuter(s) ==
  LET ws == {"\r", "\n"}
      keep == {i \in 1..Len(s) : s[i] \notin ws}
      t == IF keep = {} THEN <<>> ELSE SubSeq(s, SetMin(keep), SetMax(keep))
      a == IF Len(t) > 0 /\ t[1] = "[" THEN Tail(t) ELSE t
  IN  IF Len(a) > 0 /\ a[Len(a)] = "]" THEN SubSeq(a, 1, Len(a) - 1) ELSE a

\* strings.Trim(s, cutset): every leading and trailing character of cutset goes
Trim(s, cutset) ==
  LET keep == {i \in 1..Len(s) : s[i] \notin cutset}
  IN  IF keep = {} THEN <<>> ELSE SubSeq(s, SetMin(keep), SetMax(keep))

\* html.EscapeString
EscapeChar(c) ==
  CASE c = "&" -> <<"&", "a", "m", "p", ";">>
    [] c = "<" -> <<"&", "l", "t", ";">>
    [] c = ">" -> <<"&", "g", "t", ";">>
    [] c = "\"" -> <<"&", "#", "3", "4", ";">>
    [] c = "'" -> <<"&", "#", "3", "9", ";">>
    [] OTHER -> <<c>>

RECURSIVE EscapeString(_)
EscapeString(s) ==
  IF s = <<>> THEN <<>> ELSE EscapeChar(Head(s)) \o EscapeString(Tail(s))

\* JSON-like values: a number, a string or an array of values
Num(n) == [t |-> "num", n |-> n, s |-> <<>>, a |-> <<>>]
Str(s) == [t |-> "str", n |-> 0, s |-> s, a |-> <<>>]
Arr(a) == [t |-> "arr", n |-> 0, s |-> <<>>, a |-> a]

\* a JSON string body: quote and backslash are escaped
RECURSIVE QuoteChars(_)
QuoteChars(s) ==
  IF s = <<>> THEN <<>>
  ELSE (IF Head(s) \in {"\"", "\\"} THEN <<"\\", Head(s)>> ELSE <<Head(s)>>)
         \o QuoteChars(Tail(s))

\* compact JSON: no space after a comma
RECURSIVE ToJSON(_), JoinJSON(_)
ToJSON(v) ==
  CASE v.t = "num" -> Itoa(v.n)
    [] v.t = "str" -> <<"\"">> \o QuoteChars(v.s) \o <<"\"">>
    [] v.t = "arr" -> <<"[">> \o JoinJSON(v.a) \o <<"]">>
JoinJSON(a) ==
  IF a = <<>> THEN <<>>
  ELSE IF Len(a) = 1 THEN ToJSON(a[1])
  ELSE ToJSON(a[1]) \o <<",">> \o JoinJSON(Tail(a))

\* the serializer of the argument list: compact JSON and a line break
mustToJSONForDev(params) == ToJSON(Arr(params)) \o <<"\n">>

\* ------------------------------------------------------------ call tracer
WrapperHead == <<"(", "r", "o", "d", ",", " ", ".", ".", ".", "a", "r", "g", "s", ")", " ", "=", ">", " ">>
RodDot == <<"r", "o", "d", ".">>
ApplyThis == <<".", "a", "p", "p", "l", "y", "(", "t", "h", "i", "s", ",", " ">>

\* the positions where the group (rod\..+) may end: "rod." and at least one more
\* character, none of them a line break, then ".apply(this, "
HelperMatchEnds(js) ==
  LET g == Len(WrapperHead) + 1
  IN  IF ~HasPrefixAt(js, WrapperHead \o RodDot, 1) THEN {}
      ELSE {e \in (g + Len(RodDot))..Len(js) :
              /\ \A j \in (g + Len(RodDot))..e : js[j] # "\n"
              /\ HasPrefixAt(js, ApplyThis, e + 1)}

\* a pattern whose group leaves "rod." out
regHelperJSNoPrefix(js) ==
  LET ends == HelperMatchEnds(js)
  IN  IF ends = {} THEN <<>>
      ELSE <<SubSeq(js, 1, SetMax(ends) + Len(ApplyThis)),
             SubSeq(js, Len(WrapperHead) + Len(RodDot) + 1, SetMax(ends))>>

\* regHelperJS.FindStringSubmatch(js): <<>> for nil, else the match and the
\* group; .+ is greedy, so the group ends at the last place it can
regHelperJS(js) ==
  LET ends == HelperMatchEnds(js)
  IN  IF ends = {} THEN <<>>
      ELSE <<SubSeq(js, 1, SetMax(ends) + Len(ApplyThis)),
             SubSeq(js, Len(WrapperHead) + 1, SetMax(ends))>>

\* the script sources the tracer is tried on
SrcExample == <<"(", "r", "o", "d", ",", " ", ".", ".", ".", "a", "r", "g", "s", ")", " ", "=", ">", " ", "r", "o", "d", ".", "f", "o", "o", ".", "a", "p", "p", "l", "y", "(", "t", "h", "i", "s", ",", " ">>
SrcHelper == <<"(", "r", "o", "d", ",", " ", ".", ".", ".", "a", "r", "g", "s", ")", " ", "=", ">", " ", "r", "o", "d", ".", "a", ".", "a", "p", "p", "l", "y", "(", "t", "h", "i", "s", ",", " ", "a", "r", "g", "s", ")">>
SrcPlain == <<"n", " ", "=", ">", " ", "n", " ", "+", " ", "1">>
SrcNoRod == <<"(", "r", "o", "d", ",", " ", ".", ".", ".", "a", "r", "g", "s", ")", " ", "=", ">", " ", "f", "o", "o", ".", "a", "p", "p", "l", "y", "(", "t", "h", "i", "s", ",", " ">>
SrcGreedy == <<"(", "r", "o", "d", ",", " ", ".", ".", ".", "a", "r", "g", "s", ")", " ", "=", ">", " ", "r", "o", "d", ".", "a", ".", "a", "p", "p", "l", "y", "(", "t", "h", "i", "s", ",", " ", ".", "a", "p", "p", "l", "y", "(", "t", "h", "i", "s", ",", " ">>
Sources == {SrcExample, SrcHelper, SrcPlain, SrcNoRod, SrcGreedy}

\* the argument lists the tracer is tried on
ArgsEmpty == <<>>
ArgsOne == <<Num(1)>>
ArgsExample == <<Str(<<"x">>), Str(<<"i", "d", "1">>), Str(<<"h", "e", "l", "l", "o">>)>>
ArgsNested == <<Arr(<<Num(1)>>)>>
ArgsNestedLast == <<Str(<<"x">>), Arr(<<Num(1), Num(2)>>)>>
ArgsMarkup == <<Str(<<"x">>), Str(<<"<", "b", ">">>)>>
ArgLists == {ArgsEmpty, ArgsOne, ArgsExample, ArgsNested, ArgsNestedLast, ArgsMarkup}

\* the outcomes of one remote evaluation (EvalE): the script ran, the page's
\* context was cancelled or timed out before it ran, or the page navigated away
Outcomes == {"ok", "context.DeadlineExceeded", "navigated"}

Messages == {<<"click">>}
Rects == {<<0, 0, 500, 0>>, <<10, 20, 30, 40>>}

\* one side effect; the fields a kind does not use are empty
Eff(kind, helper, id, rect, text, outcome) ==
  [kind |-> kind, helper |-> helper, id |-> id, rect |-> rect, text |-> text,
   outcome |-> outcome]

NoHandle == [kind |-> "none", id |-> 0]
NoopHandle == [kind |-> "noop", id |-> 0]

\* what a call did: how it returned, the remover it returned, its side effects in
\* order and the page's overlay elements after it
Done(ret, handle, effs, d) == [ret |-> ret, handle |-> handle, effs |-> effs, dom |-> d]

\* the helper scripts overlay, elementOverlay and removeOverlay on the page
PageEval(d, helper, id, rect, text, outcome) ==
  CASE outcome = "navigated" -> {}
    [] outcome = "ok" /\ helper = "removeOverlay" -> {e \in d : e.id # id}
    [] outcome = "ok" /\ helper # "removeOverlay" ->
         d \cup {[id |-> id, helper |-> helper, rect |-> rect, text |-> text]}
    [] OTHER -> d

defaultTraceLogAct(msg) == <<Eff("log", "act", 0, <<>>, msg, "")>>

defaultTraceLogJS(js, params) ==
  LET paramsStr == IF Len(params) > 0
                   THEN Trim(mustToJSONForDev(params), {"[", "]", "\r", "\n"})
                   ELSE <<>>
  IN  (IF Len(params) > 0 THEN <<Eff("json", "", 0, <<>>, <<>>, "")>> ELSE <<>>)
        \o <<Eff("log", "js", 0, <<>>, js \o <<"(">> \o paramsStr \o <<")">>, "")>>

\* the error sink: the call is recorded, the line is printed unless the error is
\* a context error
defaultTraceLogErr(err) ==
  <<Eff("sink", "traceLogErr", 0, <<>>, <<>>, err)>>
    \o (IF err # "context.Canceled" /\ err # "context.DeadlineExceeded"
        THEN <<Eff("errlog", "[rod trace err]", 0, <<>>, <<>>, err)>>
        ELSE <<>>)

\* an overlay whose failed evaluation is dropped
OverlayDropsError(id, rect, msg, outcome) ==
  Done("ok", [kind |-> "page", id |-> id],
       <<Eff("eval", "overlay", id, rect, msg, outcome)>>,
       PageEval(dom, "overlay", id, rect, msg, outcome))

\* Page.Overlay; id is the fresh kit.RandString(8)
Overlay(id, rect, msg, outcome) ==
  Done("ok", [kind |-> "page", id |-> id],
       <<Eff("eval", "overlay", id, rect, msg, outcome)>>
         \o (IF outcome # "ok" THEN defaultTraceLogErr(outcome) ELSE <<>>),
       PageEval(dom, "overlay", id, rect, msg, outcome))

\* Element.Trace
Trace(id, msg, outcome) ==
  Done("ok", [kind |-> "element", id |-> id],
       <<Eff("eval", "elementOverlay", id, <<>>, msg, outcome)>>
         \o (IF outcome # "ok" THEN defaultTraceLogErr(outcome) ELSE <<>>),
       PageEval(dom, "elementOverlay", id, <<>>, msg, outcome))

\* a remover that evaluates nothing
removeNothing(handle, outcome) == Done("ok", NoHandle, <<>>, dom)

\* a remover that tears down every overlay of the page
removeEvery(handle, outcome) ==
  IF handle.kind = "noop"
  THEN Done("ok", NoHandle, <<>>, dom)
  ELSE Done("ok", NoHandle,
            <<Eff("eval", "removeOverlay", handle.id, <<>>, <<>>, outcome)>>,
            IF outcome = "ok" THEN {} ELSE PageEval(dom, "removeOverlay", handle.id, <<>>, <<>>, outcome))

\* the remover a call returned: func() {} or the removeOverlay closure, whose
\* evaluation error is dropped
remove(handle, outcome) ==
  IF handle.kind = "noop"
  THEN Done("ok", NoHandle, <<>>, dom)
  ELSE Done("ok", NoHandle,
            <<Eff("eval", "removeOverlay", handle.id, <<>>, <<>>, outcome)>>,
            PageEval(dom, "removeOverlay", handle.id, <<>>, <<>>, outcome))

\* tryTrace with the check of browser.trace left out
tryTraceAlways(id, msg, outcome) ==
  LET t == Trace(id, msg, outcome)
  IN  Done(t.ret, t.handle, (IF ~quiet THEN defaultTraceLogAct(msg) ELSE <<>>) \o t.effs, t.dom)

\* Element.tryTrace
tryTrace(id, msg, outcome) ==
  IF ~trace THEN Done("ok", NoopHandle, <<>>, dom)
  ELSE LET t == Trace(id, msg, outcome)
       IN  Done(t.ret, t.handle,
                (IF ~quiet THEN defaultTraceLogAct(msg) ELSE <<>>) \o t.effs, t.dom)

CodeOpen == <<"j", "s", " ", "<", "c", "o", "d", "e", ">">>
CodeClose == <<"<", "/", "c", "o", "d", "e", ">">>

\* the displayed list keeps every argument
TracedParamsKeepAll(params, matches) == params

\* params = params[1:] when the pattern matched
TracedParams(params, matches) ==
  IF matches # <<>> THEN Tail(params) ELSE params

\* js = matches[1] when the pattern matched
TracedSource(js, matches) ==
  IF matches # <<>> THEN matches[2] ELSE js

\* tryTraceFn after the check of browser.trace
tryTraceFnEnabled(js, params, matches, id, outcome) ==
  IF matches # <<>> /\ Len(params) = 0
  THEN \* params[1:] of an empty slice: slice bounds out of range
       Done("panic", NoHandle, <<>>, dom)
  ELSE LET js2 == TracedSource(js, matches)
           params2 == TracedParams(params, matches)
           paramsStr == Trim(mustToJSONForDev(params2), {"[", "]", "\r", "\n"})
           msg == CodeOpen \o js2 \o <<"(">> \o EscapeString(paramsStr) \o <<")">> \o CodeClose
           o == Overlay(id, <<0, 0, 500, 0>>, msg, outcome)
       IN  Done(o.ret, o.handle,
                <<Eff("json", "", 0, <<>>, <<>>, "")>>
                  \o (IF ~quiet THEN defaultTraceLogJS(js2, params2) ELSE <<>>)
                  \o o.effs,
                o.dom)

\* tryTraceFn with the check of browser.trace left out
tryTraceFnAlways(js, params, id, outcome) ==
  tryTraceFnEnabled(js, params, regHelperJS(js), id, outcome)

\* Page.tryTraceFn
tryTraceFn(js, params, id, outcome) ==
  IF ~trace THEN Done("ok", NoopHandle, <<>>, dom)
  ELSE tryTraceFnEnabled(js, params, regHelperJS(js), id, outcome)

\* ---------------------------------------------------------------- actions
NewId == Len(calls) + 1

\* a call of one of the four operations is recorded with what it did
Record(op, js, params, msg, rect, r) ==
  /\ calls' = Append(calls, [op |-> op, js |-> js, params |-> params, msg |-> msg,
                             rect |-> rect, ret |-> r.ret, handle |-> r.handle,
                             removes |-> 0])
  /\ effects' = effects \o [k \in 1..Len(r.effs) |->
                              [call |-> Len(calls) + 1, phase |-> "call", eff |-> r.effs[k]]]
  /\ dom' = r.dom
  /\ UNCHANGED <<trace, quiet, monitorVars, otherVars>>

CallTryTraceFn(js, params, outcome) ==
  /\ Len(calls) < MaxCalls
  /\ Record("tryTraceFn", js, params, <<>>, <<>>, tryTraceFn(js, params, NewId, outcome))

CallTryTrace(msg, outcome) ==
  /\ Len(calls) < MaxCalls
  /\ Record("tryTrace", <<>>, <<>>, msg, <<>>, tryTrace(NewId, msg, outcome))

CallOverlay(rect, msg, outcome) ==
  /\ Len(calls) < MaxCalls
  /\ Record("Overlay", <<>>, <<>>, msg, rect, Overlay(NewId, rect, msg, outcome))

CallTrace(msg, outcome) ==
  /\ Len(calls) < MaxCalls
  /\ Record("Trace", <<>>, <<>>, msg, <<>>, Trace(NewId, msg, outcome))

\* the removers invoked so far, over the first n calls
RECURSIVE RemovesDone(_)
RemovesDone(n) == IF n = 0 THEN 0 ELSE calls[n].removes + RemovesDone(n - 1)

\* the caller invokes the remover that call c returned
CallRemove(c, outcome) ==
  /\ c \in 1..Len(calls)
  /\ calls[c].ret = "ok"
  /\ RemovesDone(Len(calls)) < MaxRemoves
  /\ calls[c].handle.kind = "noop" => outcome = "ok"
  /\ LET r == remove(calls[c].handle, outcome)
     IN  /\ effects' = effects \o [k \in 1..Len(r.effs) |->
                                     [call |-> c, phase |-> "remove", eff |-> r.effs[k]]]
         /\ dom' = r.dom
  /\ calls' = [calls EXCEPT ![c].removes = @ + 1]
  /\ UNCHANGED <<trace, quiet, monitorVars, otherVars>>

InitTrace ==
  /\ MonitorIdle
  /\ TraceIdle
  /\ OtherIdle
  /\ trace \in BOOLEAN
  /\ quiet \in BOOLEAN

NextTrace ==
  \/ \E js \in {SrcExample, SrcPlain}, params \in {ArgsEmpty, ArgsExample}, o \in Outcomes :
        CallTryTraceFn(js, params, o)
  \/ \E msg \in Messages, o \in Outcomes : CallTryTrace(msg, o)
  \/ \E rect \in Rects, msg \in Messages, o \in Outcomes : CallOverlay(rect, msg, o)
  \/ \E msg \in Messages, o \in Outcomes : CallTrace(msg, o)
  \/ \E c \in 1..Len(calls), o \in Outcomes : CallRemove(c, o)

\* the tracer and the overlays, with the removers invoked any number of times
SpecTrace == InitTrace /\ [][NextTrace]_vars

NextFormat ==
  \E js \in Sources, params \in ArgLists, o \in Outcomes : CallTryTraceFn(js, params, o)

\* the call tracer alone, on every source and argument list
SpecFormat == InitTrace /\ [][NextFormat]_vars

\* ------------------------------------------------------ concurrent overlays
MaxOverlays == 2

\* an automation step shows a page overlay; steps of several goroutines
\* interleave at the page's evaluations
ShowOverlay(rect, msg, outcome) ==
  /\ Len(calls) < MaxOverlays
  /\ Record("Overlay", <<>>, <<>>, msg, rect, Overlay(NewId, rect, msg, outcome))

\* an automation step shows an element overlay
ShowTrace(msg, outcome) ==
  /\ Len(calls) < MaxOverlays
  /\ Record("Trace", <<>>, <<>>, msg, <<>>, Trace(NewId, msg, outcome))

InitOverlays ==
  /\ MonitorIdle
  /\ TraceIdle
  /\ OtherIdle
  /\ trace = TRUE
  /\ quiet = FALSE

NextOverlays ==
  \/ \E msg \in Messages, o \in {"ok", "context.DeadlineExceeded"} :
        ShowOverlay(<<10, 20, 30, 40>>, msg, o)
  \/ \E msg \in Messages, o \in {"ok", "context.DeadlineExceeded"} : ShowTrace(msg, o)
  \/ \E c \in 1..Len(calls), o \in Outcomes : CallRemove(c, o)

\* several overlays shown and removed in any order
SpecOverlays == InitOverlays /\ [][NextOverlays]_vars

\* -------------------------------------------------------------------- pacer
MaxSlow == 2
MaxPaces == 3

RECURSIVE Sum(_)
Sum(seq) == IF seq = <<>> THEN 0 ELSE seq[1] + Sum(Tail(seq))

\* a pacer that sleeps twice
trySlowmotionTwice(d) == IF d = 0 THEN <<>> ELSE <<d, d>>

\* Browser.trySlowmotion: the durations it hands to time.Sleep, in order
trySlowmotion(d) == IF d = 0 THEN <<>> ELSE <<d>>

\* the duration is configured on the browser
SetSlowmotion(d) ==
  /\ d # slowmotion
  /\ slowmotion' = d
  /\ UNCHANGED <<clock, paces, monitorVars, traceVars, mouseVars, sugar>>

\* a calling path runs the pacer; each sleep suspends it for its duration
CallTrySlowmotion ==
  /\ Len(paces) < MaxPaces
  /\ LET slept == trySlowmotion(slowmotion)
     IN  /\ paces' = Append(paces, [d |-> slowmotion, slept |-> slept])
         /\ clock' = clock + Sum(slept)
  /\ UNCHANGED <<slowmotion, monitorVars, traceVars, mouseVars, sugar>>

InitPacer ==
  /\ MonitorIdle
  /\ TraceIdle
  /\ OtherIdle
  /\ trace = FALSE
  /\ quiet = FALSE

NextPacer ==
  \/ \E d \in 0..MaxSlow : SetSlowmotion(d)
  \/ CallTrySlowmotion

\* the pacer under every configured duration
SpecPacer == InitPacer /\ [][NextPacer]_vars

\* -------------------------------------------------- panic-wrapping methods
MaxSugarCalls == 2

Errs == {"context.Canceled", "target closed"}
Values == {"page1", "page2"}

\* what a fallible primitive (an ...E method) returns: a result and a nil
\* error, or a non-nil error
NoResult == {[err |-> e, value |-> "none"] : e \in Errs \cup {"nil"}}
WithResult == {[err |-> "nil", value |-> v] : v \in Values}
                \cup {[err |-> e, value |-> "none"] : e \in Errs}

Returned(out) == [ret |-> "ok", out |-> out, thrown |-> "nil"]

\* utils.E: panics with the error when it is not nil
E(err, out) == IF err # "nil" THEN [ret |-> "panic", out |-> "none", thrown |-> err]
               ELSE Returned(out)

\* utils.E(b.ConnectE()); return b
BrowserConnect(prim) == E(prim.err, "receiver")

\* _ = b.CloseE()
BrowserClose(prim) == Returned("none")

\* p, err := b.PageE(url); utils.E(err); return p
BrowserPage(prim) == E(prim.err, prim.value)

\* utils.E(p.CloseE())
PageClose(prim) == E(prim.err, "none")

Sugar(method, prim, r) ==
  /\ Len(sugar) < MaxSugarCalls
  /\ sugar' = Append(sugar, [method |-> method, err |-> prim.err, value |-> prim.value,
                             ret |-> r.ret, out |-> r.out, thrown |-> r.thrown])
  /\ UNCHANGED <<monitorVars, traceVars, mouseVars, paceVars>>

CallBrowserConnect(prim) ==
  /\ prim \in NoResult
  /\ Sugar("Browser.Connect", prim, BrowserConnect(prim))

CallBrowserClose(prim) ==
  /\ prim \in NoResult
  /\ Sugar("Browser.Close", prim, BrowserClose(prim))

CallBrowserPage(prim) ==
  /\ prim \in WithResult
  /\ Sugar("Browser.Page", prim, BrowserPage(prim))

CallPageClose(prim) ==
  /\ prim \in NoResult
  /\ Sugar("Page.Close", prim, PageClose(prim))

InitSugar ==
  /\ MonitorIdle
  /\ TraceIdle
  /\ OtherIdle
  /\ trace = FALSE
  /\ quiet = FALSE

NextSugar ==
  \/ \E prim \in NoResult : CallBrowserConnect(prim)
  \/ \E prim \in NoResult : CallBrowserClose(prim)
  \/ \E prim \in WithResult : CallBrowserPage(prim)
  \/ \E prim \in NoResult : CallPageClose(prim)

\* the panic-wrapping methods over every result of their primitives
SpecSugar == InitSugar /\ [][NextSugar]_vars

\* ------------------------------------------------------------ mouse tracer
MaxMouseOps == 2

Coords == {<<1, 2>>, <<3, 4>>}

\* what evaluating a mouse helper does on the page: initMouseTracer adds the
\* marker unless the page has it, updateMouseTracer moves the marker and answers
\* whether the page has it; a failed evaluation answers nothing, and after a
\* navigation the page has no marker
MouseEval(cur, helper, pos, outcome) ==
  IF outcome = "navigated" THEN [err |-> TRUE, value |-> FALSE, cursor |-> <<>>]
  ELSE IF outcome # "ok" THEN [err |-> TRUE, value |-> FALSE, cursor |-> cur]
  ELSE IF helper = "initMouseTracer"
    THEN [err |-> FALSE, value |-> FALSE, cursor |-> IF cur = <<>> THEN <<0, 0>> ELSE cur]
  ELSE IF cur = <<>> THEN [err |-> FALSE, value |-> FALSE, cursor |-> cur]
  ELSE [err |-> FALSE, value |-> TRUE, cursor |-> pos]

Bool(b) == IF b THEN "true" ELSE "false"

\* _, _ = m.page.EvalE(true, "", js, params)
initMouseTracer(cur, outcome) ==
  LET r == MouseEval(cur, "initMouseTracer", <<>>, outcome)
  IN  [ret |-> "none", cursor |-> r.cursor]

\* a variant that answers false when the evaluation fails
updateMouseTracerFalseOnError(cur, pos, outcome) ==
  LET r == MouseEval(cur, "updateMouseTracer", pos, outcome)
  IN  [ret |-> IF r.err THEN "false" ELSE Bool(r.value), cursor |-> r.cursor]

\* if err != nil { return true }; return res.Value.Bool()
updateMouseTracer(cur, pos, outcome) ==
  LET r == MouseEval(cur, "updateMouseTracer", pos, outcome)
  IN  [ret |-> IF r.err THEN "true" ELSE Bool(r.value), cursor |-> r.cursor]

MouseRecord(op, outcome, ret, reinit) ==
  [op |-> op, outcome |-> outcome, had |-> cursor # <<>>, ret |-> ret, reinit |-> reinit]

CallInitMouseTracer(outcome) ==
  /\ Len(mlog) < MaxMouseOps
  /\ LET r == initMouseTracer(cursor, outcome)
     IN  /\ cursor' = r.cursor
         /\ mlog' = Append(mlog, MouseRecord("init", outcome, r.ret, FALSE))
  /\ UNCHANGED <<mouse, monitorVars, traceVars, paceVars, sugar>>

CallUpdateMouseTracer(pos, outcome) ==
  /\ Len(mlog) < MaxMouseOps
  /\ mouse' = pos
  /\ LET r == updateMouseTracer(cursor, pos, outcome)
     IN  /\ cursor' = r.cursor
         /\ mlog' = Append(mlog, MouseRecord("update", outcome, r.ret, FALSE))
  /\ UNCHANGED <<monitorVars, traceVars, paceVars, sugar>>

\* a pointer operation of a caller that reinitializes the tracer when the
\* update answers false: update, and on false init and update again
MouseMove(pos, outcome, initOutcome, againOutcome) ==
  /\ Len(mlog) < MaxMouseOps
  /\ mouse' = pos
  /\ LET u == updateMouseTracer(cursor, pos, outcome)
         i == initMouseTracer(u.cursor, initOutcome)
         a == updateMouseTracer(i.cursor, pos, againOutcome)
     IN  /\ cursor' = IF u.ret = "false" THEN a.cursor ELSE u.cursor
         /\ mlog' = Append(mlog, MouseRecord("move", outcome, u.ret, u.ret = "false"))
         /\ u.ret # "false" => initOutcome = "ok" /\ againOutcome = "ok"
  /\ UNCHANGED <<monitorVars, traceVars, paceVars, sugar>>

\* the page navigates, or a script of the page removes the marker
MarkerLost ==
  /\ cursor # <<>>
  /\ cursor' = <<>>
  /\ UNCHANGED <<mouse, mlog, monitorVars, traceVars, paceVars, sugar>>

InitMouse ==
  /\ MonitorIdle
  /\ TraceIdle
  /\ OtherIdle
  /\ trace = TRUE
  /\ quiet = FALSE

NextMouse ==
  \/ \E o \in Outcomes : CallInitMouseTracer(o)
  \/ \E pos \in Coords, o \in Outcomes : CallUpdateMouseTracer(pos, o)
  \/ \E pos \in Coords, o \in Outcomes, io \in Outcomes, ao \in Outcomes :
        MouseMove(pos, o, io, ao)
  \/ MarkerLost

\* the mouse tracer, called directly and from a reinitializing caller
SpecMouse == InitMouse /\ [][NextMouse]_vars

\* -------------------------------------------------------- monitor claims

Started(i) == i <= Len(monitors) /\ monitors[i].result = "srv"

\* C1: for every ServeMonitor call with a non-empty host that bound a listener,
\* once the owning session is cancelled (before or after the call) the listener
\* is eventually closed, under fair scheduling of the watcher task
C1_ClosedAfterCancel ==
  \A i \in 1..MaxServeCalls :
    (Started(i) /\ ctxDone) ~> (Started(i) /\ monitors[i].listener = "closed")

C1_Witness ==
  \E i \in 1..Len(monitors) :
    /\ monitors[i].host # "" /\ ctxDone
    /\ monitors[i].watcher = "done" /\ monitors[i].listener = "closed"

\* C2: a closed listener implies the owning session was cancelled, and the only
\* step that closes a listener is the watcher's, taken after the cancellation:
\* no answered request and no return of the accept loop closes it
C2_OnlyCancelCloses ==
  /\ [](\A i \in 1..Len(monitors) : monitors[i].listener = "closed" => ctxDone)
  /\ [][\A i \in 1..Len(monitors) :
          (monitors[i].listener = "open" /\ monitors'[i].listener # "open")
            => /\ ctxDone
               /\ monitors[i].watcher = "waiting" /\ monitors'[i].watcher = "done"
               /\ monitors'[i].accept = monitors[i].accept
               /\ responses' = responses]_vars

\* a failing handler was answered while the listener stays open, uncancelled
C2_Witness ==
  /\ ~ctxDone
  /\ \E k \in 1..Len(responses) : responses[k].status = 400
  /\ \E i \in 1..Len(monitors) : monitors[i].listener = "open"

\* C3: ServeMonitor with an empty host returns nil and binds no listener,
\* registers no route, starts neither task and opens no viewer
C3_EmptyHostDisabled ==
  \A i \in 1..Len(monitors) :
    monitors[i].host = ""
      => /\ monitors[i].result = "nil"
         /\ monitors[i].listener = "none" /\ monitors[i].addr = ""
         /\ monitors[i].routes = {}
         /\ monitors[i].accept = "none" /\ monitors[i].watcher = "none"
         /\ monitors[i].viewer = ""

C3_Witness ==
  \E i \in 1..Len(monitors) :
    /\ monitors[i].host = "" /\ monitors[i].openBrowser
    /\ monitors[i].result = "nil" /\ monitors[i].viewer = ""

\* what each route answers when its collaborators succeed (spec 4.5 and 6)
NormalAnswer(route) ==
  CASE route = "/" -> <<"text/html; charset=utf-8", "assets.Monitor">>
    [] route = "/pages" -> <<"application/json; charset=utf-8", "TargetInfos">>
    [] route = "/page/:id" -> <<"text/html; charset=utf-8", "assets.MonitorPage">>
    [] route = "/api/page/:id" -> <<"application/json; charset=utf-8", "TargetInfo">>
    [] route = "/screenshot/:id" -> <<"image/png;", "png">>

\* C4: a request whose handler fails is answered 400 with the failure's
\* description and the failure does not escape; every other request, also one
\* answered after a failed one, gets its route's normal answer; answering a
\* request changes no monitor (the server keeps serving)
C4_FailureBoundary ==
  /\ [](\A k \in 1..Len(responses) :
          LET r == responses[k] IN
            IF r.failing \in Calls(r.route)
            THEN r.status = 400 /\ r.err = r.failing \o " failed" /\ ~r.escaped
            ELSE /\ r.status = 200 /\ r.err = "" /\ ~r.escaped
                 /\ <<r.ctype, r.body>> = NormalAnswer(r.route))
  /\ [][Len(responses') > Len(responses)
          => monitors' = monitors /\ ctxDone' = ctxDone]_vars

C4_Witness ==
  \E k \in 1..(Len(responses) - 1) :
    /\ responses[k].status = 400 /\ responses[k].err = "Screenshot failed"
    /\ responses[k + 1].status = 200
    /\ \E i \in 1..Len(monitors) : monitors[i].listener = "open"

\* --------------------------------------------------------- tracer claims
IsTracer(c) == calls[c].op \in {"tryTraceFn", "tryTrace"}
IsOverlay(c) == calls[c].handle.kind \in {"page", "element"}

\* the side effects of call c: of the call itself, or of invoking its remover
EffectsOf(c, phase) ==
  SelectSeq(effects, LAMBDA e : e.call = c /\ e.phase = phase)

KindOf(c, phase, kind) ==
  SelectSeq(effects, LAMBDA e : e.call = c /\ e.phase = phase /\ e.eff.kind = kind)

ShowHelpers == {"overlay", "elementOverlay"}

\* C5: with tracing disabled, tryTraceFn and tryTrace evaluate nothing, log
\* nothing and serialize nothing, whatever the source, the arguments and quiet,
\* and the remover they return evaluates nothing however often it is invoked
C5_DisabledShortCircuit ==
  ~trace =>
    \A c \in 1..Len(calls) :
      IsTracer(c) =>
        /\ calls[c].ret = "ok" /\ calls[c].handle = NoopHandle
        /\ \A k \in 1..Len(effects) : effects[k].call # c

C5_Witness ==
  /\ ~trace
  /\ \E c \in 1..Len(calls) :
       /\ calls[c].op = "tryTraceFn" /\ calls[c].js = SrcExample
       /\ calls[c].params = ArgsExample /\ calls[c].removes = 2

\* the sources the pattern matches, with the group the code captures
Wrapped == {SrcExample, SrcHelper, SrcGreedy}
CapturedName(js) ==
  CASE js = SrcExample -> <<"r", "o", "d", ".", "f", "o", "o">>
    [] js = SrcHelper -> <<"r", "o", "d", ".", "a">>
    [] js = SrcGreedy -> <<"r", "o", "d", ".", "a", ".", "a", "p", "p", "l", "y", "(", "t", "h", "i", "s", ",", " ">>

\* the name as the claim's example reads it: without "rod."
BareName(js) == SubSeq(CapturedName(js), 5, Len(CapturedName(js)))

\* the text the code shows for an argument list
Shown(list) == Trim(mustToJSONForDev(list), {"[", "]", "\r", "\n"})

LogLines(c) ==
  LET ls == SelectSeq(effects, LAMBDA e : e.call = c /\ e.phase = "call"
                                          /\ e.eff.kind = "log")
  IN  [k \in 1..Len(ls) |-> ls[k].eff.text]

Captions(c) ==
  LET es == SelectSeq(effects, LAMBDA e : e.call = c /\ e.phase = "call"
                                          /\ e.eff.kind = "eval")
  IN  [k \in 1..Len(es) |-> es[k].eff.text]

\* C6 as stated: the displayed name is <name> without "rod.", as in foo("id1", ...)
C6_Original ==
  \A c \in 1..Len(calls) :
    (calls[c].op = "tryTraceFn" /\ trace /\ ~quiet /\ calls[c].js \in Wrapped
       /\ Len(calls[c].params) >= 1)
      => LogLines(c) = <<BareName(calls[c].js) \o <<"(">>
                           \o Shown(Tail(calls[c].params)) \o <<")">> >>

\* C6, amended: when the source matches the pattern the tracer shows the captured
\* group, "rod." included, and the arguments after the first, in order; the
\* example is shown as rod.foo("id1","hello"); with no argument the call panics
C6_UnwrapShowsGroup ==
  \A c \in 1..Len(calls) :
    (calls[c].op = "tryTraceFn" /\ trace /\ calls[c].js \in Wrapped)
      => IF calls[c].params = <<>>
         THEN calls[c].ret = "panic" /\ EffectsOf(c, "call") = <<>>
         ELSE /\ calls[c].ret = "ok"
              /\ LogLines(c) =
                   (IF quiet THEN <<>>
                    ELSE <<CapturedName(calls[c].js) \o <<"(">>
                             \o Shown(Tail(calls[c].params)) \o <<")">> >>)
              /\ Captions(c) =
                   <<CodeOpen \o CapturedName(calls[c].js) \o <<"(">>
                       \o EscapeString(Shown(Tail(calls[c].params))) \o <<")">>
                       \o CodeClose>>
              /\ (calls[c].js = SrcExample /\ calls[c].params = ArgsExample /\ ~quiet)
                   => LogLines(c) = <<<<"r", "o", "d", ".", "f", "o", "o", "(", "\"", "i", "d", "1", "\"", ",", "\"", "h", "e", "l", "l", "o", "\"", ")">>>>

C6_Witness ==
  /\ trace /\ ~quiet
  /\ \E c \in 1..Len(calls) :
       /\ calls[c].op = "tryTraceFn" /\ calls[c].js = SrcExample
       /\ calls[c].params = ArgsExample /\ calls[c].ret = "ok"
       /\ Len(LogLines(c)) = 1

\* C7: a source the pattern does not match is shown raw with the full argument
\* list, as source(args) with the one outer pair of brackets stripped
C7_Original ==
  \A c \in 1..Len(calls) :
    (calls[c].op = "tryTraceFn" /\ trace /\ ~quiet /\ calls[c].js \notin Wrapped)
      => /\ calls[c].ret = "ok"
         /\ LogLines(c) = <<calls[c].js \o <<"(">>
                              \o StripOuter(mustToJSONForDev(calls[c].params))
                              \o <<")">> >>

\* C8: with tracing enabled every traced call writes exactly one log line unless
\* quiet, and evaluates the overlay helper exactly once, after the log line
C8_Original ==
  trace =>
    \A c \in 1..Len(calls) :
      IsTracer(c) =>
        LET es == EffectsOf(c, "call")
            logs == {k \in 1..Len(es) : es[k].eff.kind = "log"}
            evals == {k \in 1..Len(es) : es[k].eff.kind = "eval"
                                          /\ es[k].eff.helper \in ShowHelpers}
        IN  /\ Cardinality(logs) = (IF quiet THEN 0 ELSE 1)
            /\ Cardinality(evals) = 1
            /\ \A l \in logs, e \in evals : l < e

\* C9: Page.Overlay and Element.Trace evaluate their helper exactly once; a
\* failed evaluation goes exactly once to the error sink, a successful one does
\* not; both return normally with a remover for their own id
C9_OverlayErrorForwardedOnce ==
  \A c \in 1..Len(calls) :
    calls[c].op \in {"Overlay", "Trace"} =>
      LET evals == KindOf(c, "call", "eval")
          sinks == KindOf(c, "call", "sink")
      IN  /\ calls[c].ret = "ok" /\ IsOverlay(c) /\ calls[c].handle.id = c
          /\ Len(evals) = 1
          /\ evals[1].eff.helper \in ShowHelpers /\ evals[1].eff.id = c
          /\ IF evals[1].eff.outcome = "ok"
             THEN sinks = <<>>
             ELSE Len(sinks) = 1 /\ sinks[1].eff.outcome = evals[1].eff.outcome

C9_Witness ==
  \E c \in 1..Len(calls) :
    /\ calls[c].op = "Overlay" /\ calls[c].removes >= 1
    /\ Len(KindOf(c, "call", "sink")) = 1
    /\ KindOf(c, "call", "eval")[1].eff.outcome = "navigated"

Residue(c) == {e \in dom : e.id = calls[c].handle.id}

RemoveEvals(c) == KindOf(c, "remove", "eval")

\* C10 as stated: once the remover was invoked, the page holds no element of
\* the overlay's id
C10_Original ==
  \A c \in 1..Len(calls) :
    (IsOverlay(c) /\ calls[c].removes >= 1) => Residue(c) = {}

\* C10, amended: every invocation of the remover evaluates removeOverlay with
\* the overlay's id, once, and does nothing else; once one of these
\* evaluations succeeded the page holds no element of that id, and a later
\* successful invocation leaves the page as it is; an invocation whose
\* evaluation fails on a context error leaves the page as it is
C10_RemoveBestEffort ==
  /\ [](\A c \in 1..Len(calls) :
          IsOverlay(c) =>
            /\ Len(EffectsOf(c, "remove")) = calls[c].removes
            /\ \A k \in 1..Len(EffectsOf(c, "remove")) :
                 LET e == EffectsOf(c, "remove")[k].eff
                 IN  e.kind = "eval" /\ e.helper = "removeOverlay"
                       /\ e.id = calls[c].handle.id
            /\ (\E k \in 1..Len(RemoveEvals(c)) : RemoveEvals(c)[k].eff.outcome = "ok")
                 => Residue(c) = {})
  /\ [][\A c \in 1..Len(calls) :
          (IsOverlay(c) /\ calls'[c].removes = calls[c].removes + 1)
            => LET e == effects'[Len(effects')].eff
               IN  /\ (e.outcome = "ok"
                        /\ \E k \in 1..Len(RemoveEvals(c)) :
                              RemoveEvals(c)[k].eff.outcome = "ok")
                         => dom' = dom
                   /\ e.outcome = "context.DeadlineExceeded" => dom' = dom]_vars

\* shown, a failed removal that leaves the element, then a removal that succeeds
C10_Witness ==
  \E c \in 1..Len(calls) :
    /\ calls[c].op = "Overlay" /\ calls[c].removes = 2
    /\ KindOf(c, "call", "eval")[1].eff.outcome = "ok"
    /\ RemoveEvals(c)[1].eff.outcome = "context.DeadlineExceeded"
    /\ RemoveEvals(c)[2].eff.outcome = "ok"
    /\ Residue(c) = {}

\* ---------------------------------------------------- mouse tracer claims
Failed(i) == mlog[i].outcome # "ok"
IsUpdate(i) == mlog[i].op \in {"update", "move"}

\* C11 as stated: updateMouseTracer never propagates an evaluation error, on
\* success answers the result value, and on a failed evaluation reports "not
\* present", so that a caller that reinitializes on "not present" reinitializes
\* after a failed update; initMouseTracer returns nothing and swallows its error
C11_Original ==
  \A i \in 1..Len(mlog) :
    /\ mlog[i].op = "init" => mlog[i].ret = "none"
    /\ IsUpdate(i) /\ ~Failed(i) => mlog[i].ret = Bool(mlog[i].had)
    /\ IsUpdate(i) /\ Failed(i) => mlog[i].ret = "false"
    /\ mlog[i].op = "move" /\ Failed(i) => mlog[i].reinit

\* C11: updateMouseTracer never propagates an evaluation error: on success it
\* answers the result value (whether the page has the marker), and on a failed
\* evaluation it answers true, the answer of a present marker, so a caller that
\* reinitializes on false reinitializes exactly after a successful update that
\* found no marker and never after a failed one; initMouseTracer returns
\* nothing whatever its evaluation did
C11_UpdateSwallows ==
  \A i \in 1..Len(mlog) :
    /\ mlog[i].op = "init" => mlog[i].ret = "none"
    /\ IsUpdate(i) /\ ~Failed(i) => mlog[i].ret = Bool(mlog[i].had)
    /\ IsUpdate(i) /\ Failed(i) => mlog[i].ret = "true"
    /\ mlog[i].op = "move" => (mlog[i].reinit <=> ~Failed(i) /\ ~mlog[i].had)

\* a caller's update failed with no marker on the page and did not
\* reinitialize, one found no marker and did, and an init's evaluation failed
C11_Witness ==
  /\ \E i \in 1..Len(mlog) :
       mlog[i].op = "move" /\ Failed(i) /\ ~mlog[i].had /\ ~mlog[i].reinit
  /\ \E i \in 1..Len(mlog) :
       (mlog[i].op = "move" /\ mlog[i].reinit) \/ (mlog[i].op = "init" /\ Failed(i))

\* ---------------------------------------------------- call tracer failures
\* C12 as stated: with tracing enabled, for every script source, every argument
\* list and every outcome of the overlay evaluation, tryTraceFn returns
\* normally with the remover of an overlay and raises nothing into its caller
C12_Original ==
  \A c \in 1..Len(calls) :
    calls[c].op = "tryTraceFn" /\ trace => calls[c].ret = "ok" /\ IsOverlay(c)

\* ------------------------------------------------ concurrent overlay claims
RemovedOk(c) == \E k \in 1..Len(RemoveEvals(c)) : RemoveEvals(c)[k].eff.outcome = "ok"

\* C13: overlays are independent under every interleaving of the Show and
\* remove steps: overlays have different ids, a remove evaluates the
\* remove-by-id helper once with its own overlay's id and, unless the page
\* navigates away during it, leaves every other overlay's element as it was, and
\* once every overlay's remove has run successfully no overlay element remains
C13_OverlaysIndependent ==
  /\ [](/\ \A c, d \in 1..Len(calls) : c # d => calls[c].handle.id # calls[d].handle.id
        /\ (\A c \in 1..Len(calls) : IsOverlay(c) => RemovedOk(c)) => dom = {})
  /\ [][\A c \in 1..Len(calls) :
          (IsOverlay(c) /\ calls'[c].removes = calls[c].removes + 1)
            => LET e == effects'[Len(effects')].eff
               IN  /\ Len(effects') = Len(effects) + 1
                   /\ effects'[Len(effects')].call = c
                   /\ e.helper = "removeOverlay" /\ e.id = calls[c].handle.id
                   /\ e.outcome # "navigated" =>
                        \A d \in 1..Len(calls) : d # c => Residue(d)' = Residue(d)]_vars

\* two overlays were shown, the second was removed and the first one's element
\* is still on the page
C13_Witness ==
  /\ Len(calls) = 2
  /\ \A c \in 1..2 : IsOverlay(c) /\ KindOf(c, "call", "eval")[1].eff.outcome = "ok"
  /\ calls[1].removes = 0 /\ Residue(1) # {}
  /\ calls[2].removes = 1 /\ RemovedOk(2) /\ Residue(2) = {}

\* ------------------------------------------------------------ pacer claims
\* C14: a call of trySlowmotion with a zero duration returns without sleeping
\* and without suspending the caller, a call with any other duration sleeps
\* exactly once, for that duration, and in either case the call changes nothing
\* else: not the configured duration, the page, the tracer or the monitor
C14_PacerOnceOrNoop ==
  [][paces' # paces =>
       LET p == paces'[Len(paces')]
       IN  /\ Len(paces') = Len(paces) + 1
           /\ SubSeq(paces', 1, Len(paces)) = paces
           /\ p.d = slowmotion
           /\ slowmotion = 0 => p.slept = <<>> /\ clock' = clock
           /\ slowmotion # 0 => p.slept = <<slowmotion>> /\ clock' = clock + slowmotion
           /\ UNCHANGED <<slowmotion, monitorVars, traceVars, mouseVars, sugar>>]_vars

\* the pacer ran with a zero duration and with a positive one
C14_Witness ==
  /\ \E i \in 1..Len(paces) : paces[i].d = 0 /\ paces[i].slept = <<>>
  /\ \E i \in 1..Len(paces) : paces[i].d > 0 /\ paces[i].slept = <<paces[i].d>>
  /\ clock > 0

\* --------------------------------------------------- panic-wrapping claims
\* C15 as stated: every convenience method, Browser.Close and Page.Close
\* included, panics with the primitive's error when that error is not nil, and
\* returns normally, with the primitive's result unchanged, when it is nil
C15_Original ==
  \A i \in 1..Len(sugar) :
    /\ sugar[i].err # "nil" => sugar[i].ret = "panic" /\ sugar[i].thrown = sugar[i].err
    /\ sugar[i].err = "nil" =>
         /\ sugar[i].ret = "ok"
         /\ sugar[i].method = "Browser.Page" => sugar[i].out = sugar[i].value

====
